---- MODULE Spec2Model ----
(***************************************************************************)
(* A model of src/main.py, the Streamlit SIP calculator: the session's     *)
(* fund list, the CSV import, add / remove / edit, the rerun that          *)
(* st.rerun() starts, and the report that calculate_and_visualize builds.  *)
(*                                                                         *)
(* Numbers.  Python floats are modelled in two layers.  Inside             *)
(* calculate_sip_future_value the formula is evaluated step by step in     *)
(* exact rational arithmetic (numerator and denominator are unbounded      *)
(* naturals, kept as little-endian sequences of base-Base limbs); the      *)
(* value it returns, and every value the report adds, rounds or shows, is  *)
(* a Float: a decimal fixed-point number [w, f] = w + f / Micro.  Division *)
(* by a zero float raises ZeroDivisionError, as in Python.                 *)
(***************************************************************************)
EXTENDS Integers, Sequences, FiniteSets, TLC

\* ------------------------------------------------------------------------
\* Unbounded naturals: <<>> is 0, limbs are least significant first and the
\* most significant limb is never 0.  Every recursion below halves its range,
\* so that numbers of a few hundred limbs are computed at a small depth.
Base == 1000

BFromInt(n) ==
    LET limbs[m \in 0..n] ==
            IF m = 0 THEN <<>> ELSE <<m % Base>> \o limbs[m \div Base]
    IN  limbs[n]

Max(S) == CHOOSE m \in S : \A k \in S : k <= m

\* a without its most significant zero limbs
BNorm(a) ==
    LET nz == {i \in 1..Len(a) : a[i] # 0}
    IN  IF nz = {} THEN <<>> ELSE SubSeq(a, 1, Max(nz))

\* The natural whose columns are c (any integers; the value is known to be
\* >= 0).  range[lo, hi, cin] is columns lo..hi with the carry cin brought
\* in, as limbs and the carry out; \div rounds down, so a negative column
\* borrows.
Carry(c) ==
    LET range[lo \in 1..Len(c), hi \in 1..Len(c), cin \in Int] ==
            IF lo = hi
            THEN LET v == c[lo] + cin
                 IN  [out |-> <<v % Base>>, carry |-> v \div Base]
            ELSE LET mid  == (lo + hi) \div 2
                     low  == range[lo, mid, cin]
                     high == range[mid + 1, hi, low.carry]
                 IN  [out |-> low.out \o high.out, carry |-> high.carry]
    IN  IF Len(c) = 0 THEN <<>>
        ELSE LET r == range[1, Len(c), 0]
             IN  BNorm(r.out \o BFromInt(r.carry))

LimbAt(a, i) == IF i <= Len(a) THEN a[i] ELSE 0

LenMax(a, b) == IF Len(a) >= Len(b) THEN Len(a) ELSE Len(b)

BAdd(a, b) == Carry([i \in 1..LenMax(a, b) |-> LimbAt(a, i) + LimbAt(b, i)])

\* a - b, for a >= b
BSub(a, b) == Carry([i \in 1..LenMax(a, b) |-> LimbAt(a, i) - LimbAt(b, i)])

\* Column k of the product of a and b: the sum of a[i] * b[k + 1 - i].
Column(a, b, k) ==
    LET first == IF k + 1 - Len(b) > 1 THEN k + 1 - Len(b) ELSE 1
        last  == IF k < Len(a) THEN k ELSE Len(a)
        sum[lo \in 1..Len(a), hi \in 1..Len(a)] ==
            IF lo = hi THEN a[lo] * b[k + 1 - lo]
            ELSE LET mid == (lo + hi) \div 2
                 IN  sum[lo, mid] + sum[mid + 1, hi]
    IN  sum[first, last]

BMul(a, b) ==
    IF a = <<>> \/ b = <<>> THEN <<>>
    ELSE Carry([k \in 1..(Len(a) + Len(b) - 1) |-> Column(a, b, k)])

\* a <= b
BLeq(a, b) ==
    IF Len(a) # Len(b) THEN Len(a) < Len(b)
    ELSE LET diff == {i \in 1..Len(a) : a[i] # b[i]}
         IN  diff = {} \/ a[Max(diff)] < b[Max(diff)]

Pow2(k) == 2 ^ k

\* floor(a / b) as an integer, for b > 0 and a quotient below 2^31: its
\* bits, the highest first.
BDivInt(a, b) ==
    LET bits[k \in -1..30, acc \in Nat] ==
            IF k < 0 THEN acc
            ELSE LET try == acc + Pow2(k)
                 IN  IF BLeq(BMul(b, BFromInt(try)), a)
                     THEN bits[k - 1, try]
                     ELSE bits[k - 1, acc]
    IN  bits[30, 0]

\* floor(a / b + 1/2)
BDivRound(a, b) == BDivInt(BAdd(BAdd(a, a), b), BAdd(b, b))

\* ------------------------------------------------------------------------
\* Exact non-negative rationals [n, d], d > 0 (a zero d is never built:
\* RDiv is applied only where the divisor is known to be non-zero).
RInt(k) == [n |-> BFromInt(k), d |-> BFromInt(1)]

RAdd(x, y) == [n |-> BAdd(BMul(x.n, y.d), BMul(y.n, x.d)), d |-> BMul(x.d, y.d)]

\* x - y, for x >= y
RSub(x, y) == [n |-> BSub(BMul(x.n, y.d), BMul(y.n, x.d)), d |-> BMul(x.d, y.d)]

RMul(x, y) == [n |-> BMul(x.n, y.n), d |-> BMul(x.d, y.d)]

RDiv(x, y) == [n |-> BMul(x.n, y.d), d |-> BMul(x.d, y.n)]

RIsZero(x) == x.n = <<>>

\* x ^ k, by repeated squaring
RPow(x, k) ==
    LET power[j \in 0..k] ==
            IF j = 0 THEN RInt(1)
            ELSE LET h  == power[j \div 2]
                     sq == RMul(h, h)
                 IN  IF j % 2 = 1 THEN RMul(sq, x) ELSE sq
    IN  power[k]

\* ------------------------------------------------------------------------
\* Floats: [w, f] is w + f / Micro, 0 <= f < Micro.
Micro == 1000000

Cent == 10000

F(k) == [w |-> k, f |-> 0]

FZero == F(0)

FAdd(x, y) ==
    LET s == x.f + y.f
    IN  IF s >= Micro THEN [w |-> x.w + y.w + 1, f |-> s - Micro]
        ELSE [w |-> x.w + y.w, f |-> s]

\* x - y, for x >= y
FSub(x, y) ==
    IF x.f >= y.f THEN [w |-> x.w - y.w, f |-> x.f - y.f]
    ELSE [w |-> x.w - y.w - 1, f |-> x.f + Micro - y.f]

FLess(x, y) == x.w < y.w \/ (x.w = y.w /\ x.f < y.f)

\* The float nearest to the rational x.
ToFloat(x) ==
    LET w   == BDivInt(x.n, x.d)
        rem == BSub(x.n, BMul(x.d, BFromInt(w)))
        f   == BDivRound(BMul(rem, BFromInt(Micro)), x.d)
    IN  IF f = Micro THEN [w |-> w + 1, f |-> 0] ELSE [w |-> w, f |-> f]

\* The count of 1/Micro units in a float, as an unbounded natural.
FUnits(x) == BAdd(BMul(BFromInt(x.w), BFromInt(Micro)), BFromInt(x.f))

\* round(x, 2) and the "{:,.2f}" format: the nearest multiple of a cent,
\* a tie going to the even one.
Round2(x) ==
    LET q     == x.f \div Cent
        r     == x.f % Cent
        up    == (2 * r > Cent) \/ (2 * r = Cent /\ q % 2 = 1)
        cents == x.w * 100 + q + (IF up THEN 1 ELSE 0)
    IN  [w |-> cents \div 100, f |-> (cents % 100) * Cent]

\* "{:.2f}" of x / y * 100, for y # 0
Percent2(x, y) ==
    LET h == BDivRound(BMul(FUnits(x), BFromInt(100 * 100)), FUnits(y))
    IN  [w |-> h \div 100, f |-> (h % 100) * Cent]

\* ------------------------------------------------------------------------
\* calculate_sip_future_value.  A call either returns a float or raises.
Returned(v) == [raised |-> "", value |-> v]

Raised(e) == [raised |-> e, value |-> FZero]

MonthsPerYear == 12

\* The formula compounded once a year: the exponent is years, not months.
SipFormulaYearly(monthly_investment, rate_of_return, years) ==
    LET monthly_rate == RDiv(RDiv(RInt(rate_of_return), RInt(100)), RInt(12))
        growth       == RAdd(RInt(1), monthly_rate)
    IN  IF RIsZero(monthly_rate)
        THEN Raised("ZeroDivisionError")
        ELSE Returned(ToFloat(
                 RMul(RMul(RInt(monthly_investment),
                           RDiv(RSub(RPow(growth, years), RInt(1)), monthly_rate)),
                      growth)))

SipFormula(monthly_investment, rate_of_return, years) ==
    LET months       == years * MonthsPerYear
        monthly_rate == RDiv(RDiv(RInt(rate_of_return), RInt(100)), RInt(12))
        growth       == RAdd(RInt(1), monthly_rate)
    IN  IF RIsZero(monthly_rate)
        THEN Raised("ZeroDivisionError")
        ELSE Returned(ToFloat(
                 RMul(RMul(RInt(monthly_investment),
                           RDiv(RSub(RPow(growth, months), RInt(1)), monthly_rate)),
                      growth)))

\* The inputs of the model.  A call of the function on its own takes its
\* arguments from these lists; a field of the form or a cell of a CSV holds
\* one of the values of Contributions, Rates and Durations.
AmountList == <<0, 1, 500, 1000>>

RateList == <<0, 1, 7, 12>>

YearList == <<1, 2, 5, 10>>

Range(s) == {s[i] : i \in 1..Len(s)}

Position(s, v) == CHOOSE i \in 1..Len(s) : s[i] = v

ArgIndex(c, r, y) ==
    ((Position(AmountList, c) - 1) * Len(RateList) + (Position(RateList, r) - 1))
        * Len(YearList) + Position(YearList, y)

ArgAt(i) ==
    <<AmountList[((i - 1) \div (Len(RateList) * Len(YearList))) + 1],
      RateList[(((i - 1) \div Len(YearList)) % Len(RateList)) + 1],
      YearList[((i - 1) % Len(YearList)) + 1]>>

\* The function's value at each input of the model (a constant over an
\* interval: it is computed once).
FutureValues ==
    [i \in 1..(Len(AmountList) * Len(RateList) * Len(YearList)) |->
        SipFormula(ArgAt(i)[1], ArgAt(i)[2], ArgAt(i)[3])]

calculate_sip_future_value(monthly_investment, rate_of_return, years) ==
    FutureValues[ArgIndex(monthly_investment, rate_of_return, years)]

\* ------------------------------------------------------------------------
\* The session.
VARIABLES
    funds,          \* st.session_state.funds: the list of fund dicts
    uploaded_file,  \* what the file uploader holds: <<>> or <<file>>
    trigger,        \* the interaction that started the last script run
    notice,         \* what the import step of the last script run showed
    report,         \* what calculate_and_visualize rendered in the last script run
    call,           \* a call of calculate_sip_future_value on its own: its arguments
    result          \* and what it gave: <<>> or <<outcome>>

vars == <<funds, uploaded_file, trigger, notice, report, call, result>>

MaxFunds == 2

Contributions == {0, 1000}

Rates == {0, 7}

Durations == {10}

FundNames == {"", "A"}

required_columns == <<"fund_name", "monthly_investment", "rate_of_return", "years">>

FieldValues(field) ==
    CASE field = "fund_name" -> FundNames
      [] field = "monthly_investment" -> Contributions
      [] field = "rate_of_return" -> Rates
      [] field = "years" -> Durations

DefaultMonthlyInvestment == 1000

DefaultRateOfReturn == 7

DefaultYears == 10

\* The dict that the Add Fund button appends.
NewFund ==
    [fund_name |-> "",
     monthly_investment |-> DefaultMonthlyInvestment,
     rate_of_return |-> DefaultRateOfReturn,
     years |-> DefaultYears]

\* The files a user uploads: whether pd.read_csv reads it, its header and the
\* cells of its rows, in the header's order.
Unreadable == [parses |-> FALSE, header |-> <<>>, rows |-> <<>>]

WithoutYears ==
    [parses |-> TRUE,
     header |-> <<"fund_name", "monthly_investment", "rate_of_return">>,
     rows   |-> << <<"A", 1000, 7>> >>]

WithoutNameAndRate ==
    [parses |-> TRUE,
     header |-> <<"years", "monthly_investment">>,
     rows   |-> << <<10, 1000>>, <<1, 0>> >>]

HeaderOnly ==
    [parses |-> TRUE,
     header |-> <<"fund_name", "monthly_investment", "rate_of_return", "years">>,
     rows   |-> <<>>]

OneFund ==
    [parses |-> TRUE,
     header |-> <<"years", "fund_name", "notes", "monthly_investment", "rate_of_return">>,
     rows   |-> << <<1, "A", "n", 0, 7>> >>]

TwoFunds ==
    [parses |-> TRUE,
     header |-> <<"fund_name", "monthly_investment", "rate_of_return", "years">>,
     rows   |-> << <<"B", 1000, 7, 1>>, <<"A", 1000, 7, 10>> >>]

Files == {Unreadable, WithoutYears, WithoutNameAndRate, HeaderOnly, OneFund, TwoFunds}

\* df.to_dict('records'): one dict per row, keyed by the header's columns.
to_dict_records(file) ==
    [i \in 1..Len(file.rows) |->
        [col \in Range(file.header) |-> file.rows[i][Position(file.header, col)]]]

NoNotice == [kind |-> "none", missing_columns |-> <<>>, count |-> 0]

\* An import step that empties the list before it validates the file.
ImportStepClearsFirst(fs, uploaded) ==
    IF uploaded = <<>> THEN [funds |-> fs, notice |-> NoNotice]
    ELSE LET file == uploaded[1]
             missing_columns ==
                 SelectSeq(required_columns, LAMBDA col : col \notin Range(file.header))
         IN  IF ~file.parses
             THEN [funds |-> <<>>,
                   notice |-> [kind |-> "exception", missing_columns |-> <<>>, count |-> 0]]
             ELSE IF missing_columns # <<>>
             THEN [funds |-> <<>>,
                   notice |-> [kind |-> "missing", missing_columns |-> missing_columns,
                               count |-> 0]]
             ELSE [funds |-> to_dict_records(file),
                   notice |-> [kind |-> "success", missing_columns |-> <<>>,
                               count |-> Len(file.rows)]]

\* An import step that appends the rows to the list instead of replacing it.
ImportStepAppends(fs, uploaded) ==
    IF uploaded = <<>> THEN [funds |-> fs, notice |-> NoNotice]
    ELSE LET file == uploaded[1]
             missing_columns ==
                 SelectSeq(required_columns, LAMBDA col : col \notin Range(file.header))
         IN  IF ~file.parses
             THEN [funds |-> fs,
                   notice |-> [kind |-> "exception", missing_columns |-> <<>>, count |-> 0]]
             ELSE IF missing_columns # <<>>
             THEN [funds |-> fs,
                   notice |-> [kind |-> "missing", missing_columns |-> missing_columns,
                               count |-> 0]]
             ELSE [funds |-> fs \o to_dict_records(file),
                   notice |-> [kind |-> "success", missing_columns |-> <<>>,
                               count |-> Len(fs) + Len(file.rows)]]

\* Lines 74-90 of a script run: the session's list and the notice shown,
\* given the list fs before and what the uploader holds.
ImportStep(fs, uploaded) ==
    IF uploaded = <<>> THEN [funds |-> fs, notice |-> NoNotice]
    ELSE LET file == uploaded[1]
             missing_columns ==
                 SelectSeq(required_columns, LAMBDA col : col \notin Range(file.header))
         IN  IF ~file.parses
             THEN [funds |-> fs,
                   notice |-> [kind |-> "exception", missing_columns |-> <<>>, count |-> 0]]
             ELSE IF missing_columns # <<>>
             THEN [funds |-> fs,
                   notice |-> [kind |-> "missing", missing_columns |-> missing_columns,
                               count |-> 0]]
             ELSE [funds |-> to_dict_records(file),
                   notice |-> [kind |-> "success", missing_columns |-> <<>>,
                               count |-> Len(file.rows)]]

\* list.pop(i), with the model's positions 1..Len (the code's i + 1)
Pop(fs, i) == SubSeq(fs, 1, i - 1) \o SubSeq(fs, i + 1, Len(fs))

\* ------------------------------------------------------------------------
\* calculate_and_visualize.  What a script run rendered: each element is a
\* sequence, empty when the element was not rendered.
NoReport ==
    [warning |-> FALSE, raised |-> "", totals |-> <<>>, chart |-> <<>>,
     metrics |-> <<>>, table |-> <<>>, detail_csv |-> <<>>, summary_csv |-> <<>>]

FundLabel(idx) == "Fund " \o ToString(idx)

\* One row of data (lines 168-173), for the fund at position idx.
ResultRow(fund, idx, invested_amount, future_value) ==
    [name              |-> IF fund.fund_name # "" THEN fund.fund_name ELSE FundLabel(idx),
     invested_amount   |-> Round2(invested_amount),
     estimated_returns |-> Round2(FSub(future_value, invested_amount)),
     future_value      |-> Round2(future_value)]

\* The body of the loop (lines 158-173) for the fund at position idx, given
\* the locals before it and the outcome of calculate_sip_future_value.
LoopBody(prev, fund, idx, out) ==
    LET invested_amount == F(fund.monthly_investment * fund.years * MonthsPerYear)
    IN  IF prev.raised # "" THEN prev
        ELSE IF out.raised # "" THEN [prev EXCEPT !.raised = out.raised]
        ELSE [raised |-> "",
              total_future_value    |-> FAdd(prev.total_future_value, out.value),
              total_invested_amount |-> FAdd(prev.total_invested_amount, invested_amount),
              data |-> Append(prev.data,
                              ResultRow(fund, idx, invested_amount, out.value))]

\* The loop of lines 154-173: its locals after all funds, or the exception
\* that ended it.
Accumulate(fs) ==
    LET after[k \in 0..Len(fs)] ==
            IF k = 0
            THEN [raised |-> "", total_future_value |-> FZero,
                  total_invested_amount |-> FZero, data |-> <<>>]
            ELSE LoopBody(after[k - 1], fs[k], k,
                          calculate_sip_future_value(fs[k].monthly_investment,
                                                     fs[k].rate_of_return, fs[k].years))
    IN  after[Len(fs)]

PieChart(data) == [i \in 1..Len(data) |-> <<data[i].name, data[i].invested_amount>>]

Totals(loop) ==
    [total_invested_amount  |-> loop.total_invested_amount,
     total_estimated_return |-> FSub(loop.total_future_value, loop.total_invested_amount),
     total_future_value     |-> loop.total_future_value]

\* Lines 175-256, given the locals the loop left.
Render(loop, totals) ==
    LET invested == [label |-> "Total Invested",
                     value |-> Round2(totals.total_invested_amount), delta |-> <<>>]
    IN  IF loop.raised # "" THEN [NoReport EXCEPT !.raised = loop.raised]
        ELSE IF totals.total_invested_amount = FZero
        THEN \* line 204 divides by total_invested_amount
             [NoReport EXCEPT !.raised  = "ZeroDivisionError",
                              !.totals  = <<totals>>,
                              !.chart   = <<PieChart(loop.data)>>,
                              !.metrics = <<invested>>]
        ELSE [warning |-> FALSE,
              raised  |-> "",
              totals  |-> <<totals>>,
              chart   |-> <<PieChart(loop.data)>>,
              metrics |->
                  <<invested,
                    [label |-> "Estimated Returns",
                     value |-> Round2(totals.total_estimated_return),
                     delta |-> <<Percent2(totals.total_estimated_return,
                                          totals.total_invested_amount)>>],
                    [label |-> "Future Value",
                     value |-> Round2(totals.total_future_value),
                     delta |-> <<Percent2(totals.total_future_value,
                                          totals.total_invested_amount)>>]>>,
              table       |-> <<loop.data>>,
              detail_csv  |-> <<loop.data>>,
              summary_csv |->
                  <<[total_invested_amount   |-> Round2(totals.total_invested_amount),
                     total_estimated_returns |-> Round2(totals.total_estimated_return),
                     total_future_value      |-> Round2(totals.total_future_value)]>>]

Report(loop) == Render(loop, Totals(loop))

\* calculate_and_visualize without the check of lines 150-152.
CalculateWithoutEmptyCheck(fs) == Report(Accumulate(fs))

calculate_and_visualize(fs) ==
    IF fs = <<>> THEN [NoReport EXCEPT !.warning = TRUE]
    ELSE Report(Accumulate(fs))

\* ------------------------------------------------------------------------
\* Script runs.  Every interaction of the user starts one run of main(), which
\* begins with the import step; st.rerun() ends the run and starts another
\* one, in which no widget has changed, before the user can act again.  A
\* widget gives back the value it was given unless the user has just changed
\* it (Streamlit's own code is not part of src/).
NoTrigger == [op |-> "none", index |-> 0]

Init ==
    /\ funds = <<>>
    /\ uploaded_file = <<>>
    /\ trigger = NoTrigger
    /\ notice = NoNotice
    /\ report = NoReport
    /\ call = <<>>
    /\ result = <<>>

\* The run that st.rerun() starts on the list fs (lines 74-125, no click).
Rerun(fs, uploaded) == ImportStep(fs, uploaded)

\* The user puts a file into the uploader.
UploadFile(file) ==
    /\ LET step == ImportStep(funds, <<file>>)
       IN  /\ funds' = step.funds
           /\ notice' = step.notice
    /\ uploaded_file' = <<file>>
    /\ trigger' = [op |-> "upload", index |-> 0]
    /\ report' = NoReport
    /\ UNCHANGED <<call, result>>

\* The user takes the file out of the uploader.
ClearFile ==
    /\ uploaded_file # <<>>
    /\ uploaded_file' = <<>>
    /\ notice' = ImportStep(funds, <<>>).notice
    /\ trigger' = [op |-> "clear", index |-> 0]
    /\ report' = NoReport
    /\ UNCHANGED <<funds, call, result>>

\* The user changes one field of the fund at position i (lines 98-125).
EditField(i, field, value) ==
    /\ LET step == ImportStep(funds, uploaded_file)
       IN  /\ i \in 1..Len(step.funds)
           /\ step.funds[i][field] # value
           /\ funds' = [step.funds EXCEPT ![i][field] = value]
           /\ notice' = step.notice
    /\ trigger' = [op |-> "edit", index |-> 0]
    /\ report' = NoReport
    /\ UNCHANGED <<uploaded_file, call, result>>

\* The user clicks Remove Fund i (lines 129-131): pop, then the rerun.
RemoveFund(i) ==
    /\ LET step == ImportStep(funds, uploaded_file)
       IN  /\ i \in 1..Len(step.funds)
           /\ LET again == Rerun(Pop(step.funds, i), uploaded_file)
              IN  /\ funds' = again.funds
                  /\ notice' = again.notice
    /\ trigger' = [op |-> "remove", index |-> i]
    /\ report' = NoReport
    /\ UNCHANGED <<uploaded_file, call, result>>

\* The user clicks Add Fund / Add Another Fund (lines 134-142): append, then
\* the rerun.
AddFund ==
    /\ LET step == ImportStep(funds, uploaded_file)
       IN  /\ Len(step.funds) < MaxFunds
           /\ LET again == Rerun(Append(step.funds, NewFund), uploaded_file)
              IN  /\ funds' = again.funds
                  /\ notice' = again.notice
    /\ trigger' = [op |-> "add", index |-> 0]
    /\ report' = NoReport
    /\ UNCHANGED <<uploaded_file, call, result>>

\* The user clicks Calculate Future Values (lines 276-277).
Calculate ==
    /\ LET step == ImportStep(funds, uploaded_file)
       IN  /\ funds' = step.funds
           /\ notice' = step.notice
           /\ report' = calculate_and_visualize(step.funds)
    /\ trigger' = [op |-> "calculate", index |-> 0]
    /\ UNCHANGED <<uploaded_file, call, result>>

Next ==
    \/ \E file \in Files : UploadFile(file)
    \/ ClearFile
    \/ \E i \in 1..MaxFunds, field \in Range(required_columns) :
           \E value \in FieldValues(field) : EditField(i, field, value)
    \/ \E i \in 1..MaxFunds : RemoveFund(i)
    \/ AddFund
    \/ Calculate

Spec == Init /\ [][Next]_vars

\* ------------------------------------------------------------------------
\* calculate_sip_future_value called on its own, with arguments from the
\* lists above.
InitCall ==
    /\ funds = <<>>
    /\ uploaded_file = <<>>
    /\ trigger = NoTrigger
    /\ notice = NoNotice
    /\ report = NoReport
    /\ call \in {<<c, r, y>> : c \in Range(AmountList), r \in Range(RateList),
                               y \in Range(YearList)}
    /\ result = <<>>

Invoke ==
    /\ result = <<>>
    /\ result' = <<calculate_sip_future_value(call[1], call[2], call[3])>>
    /\ UNCHANGED <<funds, uploaded_file, trigger, notice, report, call>>

NextCall == Invoke

SpecCall == InitCall /\ [][NextCall]_vars

\* ------------------------------------------------------------------------
\* Properties.

\* A file the import step accepts: it parses and has the four required columns.
Importable(file) ==
    file.parses /\ \A col \in Range(required_columns) : col \in Range(file.header)

WarningOnly ==
    [warning |-> TRUE, raised |-> "", totals |-> <<>>, chart |-> <<>>,
     metrics |-> <<>>, table |-> <<>>, detail_csv |-> <<>>, summary_csv |-> <<>>]

\* The sum of a sequence of Floats, taken in order.
SumOf(s) ==
    LET upto[k \in 0..Len(s)] == IF k = 0 THEN FZero ELSE FAdd(upto[k - 1], s[k])
    IN  upto[Len(s)]

\* C1: for every contribution c >= 0 and years >= 1,
\* calculate_sip_future_value(c, 0, years) returns exactly c * years * 12 and
\* raises no division-by-zero error.
C1_ZeroRateReturnsContributions ==
    (result # <<>> /\ call[2] = 0)
        => result[1] = [raised |-> "", value |-> [w |-> call[1] * call[3] * 12, f |-> 0]]

\* C1, the case found: calculate_sip_future_value(1000, 0, 5) raises.
C1_ZeroRateRaises ==
    /\ result # <<>>
    /\ call = <<1000, 0, 5>>
    /\ result[1].raised = "ZeroDivisionError"

\* C2: when the report is built for a non-empty list whose total invested
\* amount is 0, the pass completes without a division-by-zero failure and the
\* two summary percentages are reported as not applicable.
C2_ZeroInvestedPercentagesNotApplicable ==
    (/\ trigger.op = "calculate"
     /\ funds # <<>>
     /\ \A i \in 1..Len(funds) : funds[i].monthly_investment = 0)
        => /\ report.raised = ""
           /\ Len(report.metrics) = 3
           /\ report.metrics[2].delta = <<>>
           /\ report.metrics[3].delta = <<>>

\* C2, the case found: one fund with contribution 0 at 7%; the run stops at
\* the first percentage, after the Total Invested metric.
C2_ZeroInvestedRaises ==
    /\ trigger.op = "calculate"
    /\ Len(funds) = 1
    /\ funds[1].monthly_investment = 0
    /\ funds[1].rate_of_return = 7
    /\ report.raised = "ZeroDivisionError"
    /\ Len(report.metrics) = 1
    /\ report.summary_csv = <<>>

\* C3: an upload that cannot be imported (a required column is missing, or
\* the file does not parse) leaves the session's fund list exactly as it was
\* and shows one error; for missing columns the error lists exactly the
\* required columns absent from the header.
C3_FailedImportLeavesFunds ==
    [][(trigger'.op = "upload" /\ ~Importable(uploaded_file'[1])) =>
          LET file   == uploaded_file'[1]
              absent == {col \in Range(required_columns) : col \notin Range(file.header)}
          IN  /\ funds' = funds
              /\ notice'.kind = IF file.parses THEN "missing" ELSE "exception"
              /\ file.parses =>
                    /\ Range(notice'.missing_columns) = absent
                    /\ Len(notice'.missing_columns) = Cardinality(absent)]_vars

\* C3, its case: a file without fund_name and rate_of_return was uploaded
\* over a list of two funds.
C3_FailedImportSeen ==
    /\ trigger.op = "upload"
    /\ notice.kind = "missing"
    /\ notice.missing_columns = <<"fund_name", "rate_of_return">>
    /\ Len(funds) = 2

\* C4: after a successful import the fund list has exactly one entry per row
\* of the file, in row order, holding the row's cells; nothing of the former
\* list remains.
C4_ImportReplacesFunds ==
    [][(trigger'.op = "upload" /\ Importable(uploaded_file'[1])) =>
          LET file == uploaded_file'[1]
          IN  /\ Len(funds') = Len(file.rows)
              /\ \A i \in 1..Len(file.rows), j \in 1..Len(file.header) :
                     funds'[i][file.header[j]] = file.rows[i][j]
              /\ notice'.kind = "success"]_vars

\* C4, its case: the two-row file was imported.
C4_ImportSeen ==
    /\ trigger.op = "upload"
    /\ notice.kind = "success"
    /\ notice.count = 2
    /\ Len(funds) = 2
    /\ funds[1].fund_name = "B"
    /\ funds[2].fund_name = "A"
    /\ funds[2].years = 10

\* C5: removing the fund at index i from a list of N funds gives a list of
\* N - 1 funds: the entries before i stay where they were, the entries after
\* i move down by one, and none of their fields changes.
C5_RemoveShiftsLaterFunds ==
    [][trigger'.op = "remove" =>
          LET i == trigger'.index
          IN  /\ Len(funds') = Len(funds) - 1
              /\ \A j \in 1..Len(funds) :
                     /\ j < i => funds'[j] = funds[j]
                     /\ j > i => funds'[j - 1] = funds[j]]_vars

\* C5, the case found: Remove was clicked while the two-row file was in the
\* uploader, and the list still has both funds.
C5_RemoveUndone ==
    /\ trigger.op = "remove"
    /\ uploaded_file = <<TwoFunds>>
    /\ Len(funds) = 2

\* C6: Calculate on an empty fund list shows the warning and nothing else (no
\* rows, totals, percentages, chart or export), and the list stays empty.
C6_EmptyListWarnsOnly ==
    [][(trigger'.op = "calculate" /\ funds = <<>>) =>
          /\ report' = WarningOnly
          /\ funds' = <<>>]_vars

\* C6, its case: the warning was shown for an empty list.
C6_WarningSeen ==
    /\ trigger.op = "calculate"
    /\ funds = <<>>
    /\ report.warning

\* C7 as stated: for every rate > 0, contribution c >= 0 and years >= 1 the
\* future value is strictly greater than c * years * 12.
C7_PositiveRateExceedsPrincipal ==
    (result # <<>> /\ call[2] > 0)
        => /\ result[1].raised = ""
           /\ FLess(F(call[1] * call[3] * 12), result[1].value)

\* C7 amended: for every rate > 0 and years >= 1 the call returns; the future
\* value is strictly greater than c * years * 12 when c > 0, and is 0, the
\* invested amount, when c = 0.
C7_PositiveRateExceedsPositivePrincipal ==
    (result # <<>> /\ call[2] > 0)
        => /\ result[1].raised = ""
           /\ IF call[1] > 0
              THEN FLess(F(call[1] * call[3] * 12), result[1].value)
              ELSE result[1].value = FZero

\* C7, its case: 1000 a month at 7% for 10 years.
C7_DefaultFundValued ==
    /\ result # <<>>
    /\ call = <<1000, 7, 10>>
    /\ result[1] = [raised |-> "", value |-> [w |-> 174094, f |-> 468810]]

\* C8: for every non-empty fund list the report's totals are the sums, in
\* store order, of the unrounded per-fund values: invested amounts
\* (contribution * years * 12), future values, and their difference.
C8_TotalsAreSumsOfUnroundedValues ==
    (trigger.op = "calculate" /\ funds # <<>>)
        => LET invested == [k \in 1..Len(funds) |->
                               F(funds[k].monthly_investment * funds[k].years * 12)]
               future   == [k \in 1..Len(funds) |->
                               calculate_sip_future_value(funds[k].monthly_investment,
                                   funds[k].rate_of_return, funds[k].years).value]
           IN  /\ report.totals # <<>>
               /\ report.totals[1].total_invested_amount = SumOf(invested)
               /\ report.totals[1].total_future_value = SumOf(future)
               /\ report.totals[1].total_estimated_return =
                      FSub(SumOf(future), SumOf(invested))

\* C8, the case found: a list with a fund at rate 0 gets no totals.
C8_NoTotals ==
    /\ trigger.op = "calculate"
    /\ Len(funds) = 2
    /\ funds[1].rate_of_return = 0
    /\ funds[2].rate_of_return = 7
    /\ report.totals = <<>>
    /\ report.raised = "ZeroDivisionError"

\* C9: the report has exactly one row per stored fund, in store order, named
\* by the fund's name or, when that is blank, "Fund k" for its 1-based
\* position k; the stored funds keep their fields, blank names included.
C9_OneRowPerFundInOrder ==
    (trigger.op = "calculate" /\ funds # <<>>)
        => /\ report.table # <<>>
           /\ Len(report.table[1]) = Len(funds)
           /\ \A k \in 1..Len(funds) :
                  report.table[1][k].name =
                      IF funds[k].fund_name = "" THEN "Fund " \o ToString(k)
                      ELSE funds[k].fund_name

\* C9, the case found: two funds, the second at rate 0, and no result rows.
C9_NoRows ==
    /\ trigger.op = "calculate"
    /\ Len(funds) = 2
    /\ funds[1].rate_of_return = 7
    /\ funds[2].rate_of_return = 0
    /\ funds[2].fund_name = ""
    /\ report.table = <<>>
    /\ report.raised = "ZeroDivisionError"

\* C10: once a file has been imported, a fund added or removed afterwards is
\* still added or removed when the rerender is over, the file being still in
\* the uploader.
C10_ChangeSurvivesRerender ==
    [][(/\ uploaded_file # <<>>
        /\ uploaded_file' = uploaded_file
        /\ Importable(uploaded_file[1])
        /\ trigger'.op \in {"add", "remove"}) =>
          IF trigger'.op = "add"
          THEN /\ Len(funds') = Len(funds) + 1
               /\ funds'[Len(funds')] = NewFund
          ELSE Len(funds') = Len(funds) - 1]_vars

\* C10, the case found: Add Another Fund was clicked with the one-row file in
\* the uploader, and the list is the file's single row again.
C10_AddUndone ==
    /\ trigger.op = "add"
    /\ uploaded_file = <<OneFund>>
    /\ Len(funds) = 1
    /\ funds[1].fund_name = "A"

====
